---------------------------- MODULE Spec2Model ----------------------------
(***************************************************************************)
(* Model of pulumi-amplify: RandomId.generate (random_id.py) and the       *)
(* construction of AmplifyGraphQLAPI (amplify_graphql_api.py).             *)
(*                                                                         *)
(* Python strings are TLA+ strings; a character is a string of length 1.   *)
(* A declared resource is a record appended to `declared`; a resource      *)
(* handle is its position in that sequence.                                *)
(***************************************************************************)
EXTENDS Integers, Sequences, FiniteSets, TLC

VARIABLES
    gen_chars,        \* RandomId.generate: the argument `chars`
    gen_bytes,        \* RandomId.generate: what os.urandom returned
    gen_out,          \* RandomId.generate: the returned string, or None
    schema_readable,  \* filesystem: build/schema.graphql can be read
    resolvers_dir,    \* filesystem: build/resolvers, [exists, entries]
    graphql_types,    \* __init__ argument graphql_types
    pc,               \* position inside __init__
    random_chars,     \* self.random_chars
    type_idx,         \* position of the for loop of __init__ (1-based)
    handles,          \* locals of generate_dynamo_data_source (handles)
    todo,             \* entries resolvers_dir.iterdir() has not yielded yet
    declared,         \* resources declared so far, in declaration order
    outputs,          \* outputs registered by set_outputs, or None
    error             \* the exception that left __init__, or None

vars == <<gen_chars, gen_bytes, gen_out, schema_readable, resolvers_dir,
          graphql_types, pc, random_chars, type_idx, handles, todo,
          declared, outputs, error>>

gen_vars == <<gen_chars, gen_bytes, gen_out>>

api_vars == <<schema_readable, resolvers_dir, graphql_types, pc,
              random_chars, type_idx, handles, todo, declared, outputs,
              error>>

None == "None"

-----------------------------------------------------------------------------
(* Bounds of the model.                                                    *)

\* largest argument of RandomId.generate that is explored
MaxChars == 3

\* largest number of entries of the resolvers directory
MaxFiles == 2

\* largest length of graphql_types
MaxTypes == 2

-----------------------------------------------------------------------------
(* Strings.                                                                *)

CharAt(s, i) == SubSeq(s, i, i)

\* Python slice s[0:n]
Slice0(s, n) == SubSeq(s, 1, IF n < Len(s) THEN n ELSE Len(s))

Byte == 0 .. 255

HexDigits == "0123456789abcdef"

\* binascii.b2a_hex(data).decode("utf-8"): two lowercase digits per byte
RECURSIVE b2a_hex(_)
b2a_hex(data) ==
    IF data = <<>> THEN ""
    ELSE CharAt(HexDigits, (Head(data) \div 16) + 1)
         \o CharAt(HexDigits, (Head(data) % 16) + 1)
         \o b2a_hex(Tail(data))

\* a mutant of ceil: rounds down
floor_half(chars) == chars \div 2

\* ceil(chars / 2)
ceil_half(chars) == (chars + 1) \div 2

\* os.urandom(n): every sequence of n bytes
urandom(n) == [1 .. n -> Byte]

\* RandomId.generate(chars), given the outcome of os.urandom(char_bytes)
generate(chars, data) == Slice0(b2a_hex(data), chars)

\* the argument of RandomId.generate in __init__
RandomCharsLen == 8

\* outcomes of os.urandom(4) explored by the construction
SampleUrandom == { <<0, 0, 0, 0>>, <<222, 173, 190, 239>> }

-----------------------------------------------------------------------------
(* The filename pattern of generate_resolvers.                             *)

Letters ==
    {CharAt("abcdefghijklmnopqrstuvwxyzABCDEFGHIJKLMNOPQRSTUVWXYZ", i) :
        i \in 1 .. 52}

\* the last position of the longest run of letters of s that starts at
\* position from (from - 1 when there is none): the greedy [a-zA-Z]+
RECURSIVE LetterRunEnd(_, _)
LetterRunEnd(s, from) ==
    IF from <= Len(s) /\ CharAt(s, from) \in Letters
    THEN LetterRunEnd(s, from + 1)
    ELSE from - 1

\* the positions after which Python's `$` matches: the end of the string,
\* and just before a newline that is the last character of the string
EndAnchors(s) ==
    {Len(s)} \cup
    (IF Len(s) >= 1 /\ CharAt(s, Len(s)) = "\n" THEN {Len(s) - 1} ELSE {})

\* match(f"^([a-zA-Z]+)\\.([a-zA-Z]+{type_name}s?)\\.req\\.vtl$", name):
\* the set of its match objects, empty when there is no match.  Group 1 is
\* the leading run of letters, which a "." must follow; in group 2 the run
\* [a-zA-Z]+ ends at some k, the type name and an optional "s" follow, and
\* ".req.vtl" (8 characters) reaches an end anchor.
regex_match(type_name, name) ==
    LET e1 == LetterRunEnd(name, 1)
        run2 == LetterRunEnd(name, e1 + 2)
    IN  IF e1 < 1 \/ e1 + 1 > Len(name) \/ CharAt(name, e1 + 1) # "."
        THEN {}
        ELSE { [group1 |-> SubSeq(name, 1, e1),
                group2 |-> SubSeq(name, e1 + 2, e - 8)] :
               e \in { e \in EndAnchors(name) :
                   \E k \in (e1 + 2) .. run2, plural \in {"", "s"} :
                       SubSeq(name, k + 1, e)
                           = type_name \o plural \o ".req.vtl" } }

-----------------------------------------------------------------------------
(* Inputs of the construction.                                             *)

\* amplify_api_name, which is also self.stack_name
stack_name == "notespulumi"

\* config.region
aws_region == "eu-west-1"

\* get_caller_identity().account_id
account_id == "123456789012"

\* type names graphql_types is drawn from
TypeNames == {"Note", "SubNote"}

\* entry names the resolvers directory is drawn from
FileNames ==
    { "Query.getNote.req.vtl", "Query.getNote.res.vtl",
      "Query.getNotes.req.vtl", "Query.getNotes.res.vtl",
      "Query.getSubNote.req.vtl", "Query.getSubNote.res.vtl",
      "Mutation.getNote.req.vtl", "Mutation.getNote.res.vtl",
      "Mutation.updateThing.req.vtl",
      "Query.Note.req.vtl",
      "Query.getNote.req.vtl\n" }

\* self.amplify_api_build_dir
amplify_api_build_dir == "amplify/backend/api/" \o stack_name \o "/build"

\* Path.joinpath
joinpath(dir, name) == dir \o "/" \o name

\* Path.read_text of a readable file: the text is identified by its path
read_text(path) == "text of " \o path

\* a deferred output value of a declared resource
Output(handle, attr) == [handle |-> handle, attr |-> attr]

\* the exceptions that leave __init__
FileNotFoundError == "FileNotFoundError"

ResourceError == "ResourceError"

-----------------------------------------------------------------------------
(* The resources the construction declares.                                *)

GraphQLApi(schema) ==
    [kind |-> "GraphQLApi",
     name |-> stack_name \o "_graphql_api",
     args |-> [authentication_type |-> "AMAZON_COGNITO_USER_POOLS",
               user_pool_config |->
                   [default_action |-> "ALLOW",
                    user_pool_id |-> "user_pool.id",
                    app_id_client_regex |-> "user_pool_client.id"],
               schema |-> schema],
     depends_on |-> <<>>]

Table(type_name) ==
    [kind |-> "Table",
     name |-> stack_name \o "_" \o type_name \o "_table",
     args |-> [name |-> stack_name \o "_" \o random_chars \o "." \o type_name,
               hash_key |-> "id",
               attributes |-> <<[name |-> "id", type |-> "S"]>>,
               billing_mode |-> "PAY_PER_REQUEST"],
     depends_on |-> <<>>]

Role(type_name) ==
    [kind |-> "Role",
     name |-> stack_name \o "_" \o type_name \o "_role",
     args |-> [assume_role_policy |->
                   [Effect |-> "Allow",
                    Principal |-> [Service |-> "appsync.amazonaws.com"],
                    Action |-> "sts:AssumeRole"]],
     depends_on |-> <<>>]

TableArn(table_name) ==
    "arn:aws:dynamodb:" \o aws_region \o ":" \o account_id \o ":table/"
    \o table_name

PolicyActions ==
    << "dynamodb:BatchGetItem", "dynamodb:BatchWriteItem",
       "dynamodb:PutItem", "dynamodb:DeleteItem", "dynamodb:GetItem",
       "dynamodb:Scan", "dynamodb:Query", "dynamodb:UpdateItem" >>

\* a mutant of PolicyDocument: every table of the account
PolicyDocumentAnyTable(table_name) ==
    [Effect |-> "Allow",
     Action |-> PolicyActions,
     Resource |-> << TableArn("*"), TableArn("*") \o "/*" >>]

\* the lambda applied to table.name
PolicyDocument(table_name) ==
    [Effect |-> "Allow",
     Action |-> PolicyActions,
     Resource |-> << TableArn(table_name), TableArn(table_name) \o "/*" >>]

RolePolicy(type_name, h) ==
    [kind |-> "RolePolicy",
     name |-> stack_name \o "_" \o type_name \o "_role_policy",
     args |-> [role |-> Output(h.role, "name"),
               name |-> "MyDynamoDBAccess",
               policy |-> PolicyDocument(declared[h.table].args.name)],
     depends_on |-> <<>>]

\* a mutant of DataSourceDependsOn: also waits for the role policy
DataSourceDependsOnPolicy(h) == <<h.role, h.role_policy>>

\* opts=ResourceOptions(depends_on=[data_source_iam_role])
DataSourceDependsOn(h) == <<h.role>>

DataSource(type_name, h) ==
    [kind |-> "DataSource",
     name |-> stack_name \o "_" \o type_name \o "_data_source",
     args |-> [api_id |-> Output(h.graphql_api, "id"),
               name |-> type_name \o "TableDataSource_" \o random_chars,
               type |-> "AMAZON_DYNAMODB",
               service_role_arn |-> Output(h.role, "arn"),
               dynamodb_config |->
                   [table_name |-> declared[h.table].args.name]],
     depends_on |-> DataSourceDependsOn(h)]

Resolver(m, request_template, response_template, h) ==
    [kind |-> "Resolver",
     name |-> stack_name \o "_" \o m.group2 \o "_resolver",
     args |-> [api_id |-> Output(h.graphql_api, "id"),
               data_source |-> declared[h.data_source].args.name,
               field |-> m.group2,
               type |-> m.group1,
               request_template |-> request_template,
               response_template |-> response_template],
     depends_on |-> <<>>]

\* a mutant of ExportsParameters: the realtime endpoint
ExportsParametersRealtime(h) ==
    [aws_project_region |-> aws_region,
     aws_cognito_region |-> aws_region,
     aws_user_pools_id |-> "user_pool.id",
     aws_user_pools_web_client_id |-> "user_pool_client.id",
     aws_appsync_graphqlEndpoint |-> Output(h.graphql_api, "uris.REALTIME"),
     aws_appsync_region |-> aws_region,
     aws_appsync_authenticationType |-> "AMAZON_COGNITO_USER_POOLS"]

ExportsParameters(h) ==
    [aws_project_region |-> aws_region,
     aws_cognito_region |-> aws_region,
     aws_user_pools_id |-> "user_pool.id",
     aws_user_pools_web_client_id |-> "user_pool_client.id",
     aws_appsync_graphqlEndpoint |-> Output(h.graphql_api, "uris.GRAPHQL"),
     aws_appsync_region |-> aws_region,
     aws_appsync_authenticationType |-> "AMAZON_COGNITO_USER_POOLS"]

AmplifyExportsFile(h) ==
    [kind |-> "AmplifyExportsFile",
     name |-> stack_name \o "_exports_file",
     args |-> [source_directory |-> "src",
               parameters |-> ExportsParameters(h)],
     depends_on |-> <<>>]

-----------------------------------------------------------------------------
(* RandomId.generate as a specification of its own.                        *)

InitRandomId ==
    /\ gen_chars \in 1 .. MaxChars
    /\ gen_bytes = <<>>
    /\ gen_out = None
    /\ schema_readable = TRUE
    /\ resolvers_dir = [exists |-> TRUE, entries |-> {}]
    /\ graphql_types = <<>>
    /\ pc = "start"
    /\ random_chars = None
    /\ type_idx = 1
    /\ handles = [graphql_api |-> 0, table |-> 0, role |-> 0,
                  role_policy |-> 0, data_source |-> 0]
    /\ todo = {}
    /\ declared = <<>>
    /\ outputs = {}
    /\ error = None

Generate ==
    /\ gen_out = None
    /\ \E data \in urandom(ceil_half(gen_chars)) :
          /\ gen_bytes' = data
          /\ gen_out' = generate(gen_chars, data)
    /\ UNCHANGED gen_chars
    /\ UNCHANGED api_vars

SpecRandomId == InitRandomId /\ [][Generate]_vars

-----------------------------------------------------------------------------
(* The construction of AmplifyGraphQLAPI.                                  *)

\* sequences over S of length at most n
SeqUpTo(S, n) == UNION { [1 .. k -> S] : k \in 0 .. n }

Init ==
    /\ gen_chars = RandomCharsLen
    /\ gen_bytes = <<>>
    /\ gen_out = None
    /\ schema_readable \in BOOLEAN
    /\ resolvers_dir \in
          { [exists |-> FALSE, entries |-> {}] } \cup
          { [exists |-> TRUE, entries |-> d] :
              d \in { d \in SUBSET FileNames : Cardinality(d) <= MaxFiles } }
    /\ graphql_types \in SeqUpTo(TypeNames, MaxTypes)
    /\ pc = "start"
    /\ random_chars = None
    /\ type_idx = 1
    /\ handles = [graphql_api |-> 0, table |-> 0, role |-> 0,
                  role_policy |-> 0, data_source |-> 0]
    /\ todo = {}
    /\ declared = <<>>
    /\ outputs = {}
    /\ error = None

\* an exception leaves __init__, which has no handler
Raise(e) ==
    /\ pc' = "failed"
    /\ error' = e

\* a mutant of AfterType: the loop stops after the first type
AfterTypeFirstOnly(i) ==
    IF i <= Len(graphql_types) /\ i <= 1 THEN "table" ELSE "exports"

\* `for type_name in graphql_types`: the body for the i-th type, or the
\* statement after the loop
AfterType(i) == IF i <= Len(graphql_types) THEN "table" ELSE "exports"

type_name == graphql_types[type_idx]

\* a mutant of Begin: the schema is not read before the API is declared
BeginNoSchemaCheck ==
    /\ pc = "start"
    /\ \E data \in SampleUrandom :
          /\ Len(data) = ceil_half(RandomCharsLen)
          /\ random_chars' = generate(RandomCharsLen, data)
    /\ pc' = "graphql_api"
    /\ UNCHANGED <<error, gen_vars, schema_readable, resolvers_dir,
                   graphql_types, type_idx, handles, todo, declared,
                   outputs>>

\* self.random_chars = RandomId.generate(8); schema = schema_path.read_text()
Begin ==
    /\ pc = "start"
    /\ \E data \in SampleUrandom :
          /\ Len(data) = ceil_half(RandomCharsLen)
          /\ random_chars' = generate(RandomCharsLen, data)
    /\ IF schema_readable
       THEN pc' = "graphql_api" /\ UNCHANGED error
       ELSE Raise(FileNotFoundError)
    /\ UNCHANGED <<gen_vars, schema_readable, resolvers_dir, graphql_types,
                   type_idx, handles, todo, declared, outputs>>

DeclareGraphQLApi ==
    /\ pc = "graphql_api"
    /\ \E ok \in BOOLEAN :
          IF ok
          THEN /\ declared' = Append(declared,
                     GraphQLApi(read_text(
                         joinpath(amplify_api_build_dir, "schema.graphql"))))
               /\ handles' = [handles EXCEPT !.graphql_api = Len(declared) + 1]
               /\ pc' = AfterType(type_idx)
               /\ UNCHANGED error
          ELSE Raise(ResourceError) /\ UNCHANGED <<declared, handles>>
    /\ UNCHANGED <<gen_vars, schema_readable, resolvers_dir, graphql_types,
                   random_chars, type_idx, todo, outputs>>

DeclareTable ==
    /\ pc = "table"
    /\ \E ok \in BOOLEAN :
          IF ok
          THEN /\ declared' = Append(declared, Table(type_name))
               /\ handles' = [handles EXCEPT !.table = Len(declared) + 1]
               /\ pc' = "role"
               /\ UNCHANGED error
          ELSE Raise(ResourceError) /\ UNCHANGED <<declared, handles>>
    /\ UNCHANGED <<gen_vars, schema_readable, resolvers_dir, graphql_types,
                   random_chars, type_idx, todo, outputs>>

DeclareRole ==
    /\ pc = "role"
    /\ \E ok \in BOOLEAN :
          IF ok
          THEN /\ declared' = Append(declared, Role(type_name))
               /\ handles' = [handles EXCEPT !.role = Len(declared) + 1]
               /\ pc' = "role_policy"
               /\ UNCHANGED error
          ELSE Raise(ResourceError) /\ UNCHANGED <<declared, handles>>
    /\ UNCHANGED <<gen_vars, schema_readable, resolvers_dir, graphql_types,
                   random_chars, type_idx, todo, outputs>>

\* a mutant of DeclareRolePolicy: the policy is not declared
DeclareRolePolicySkipped ==
    /\ pc = "role_policy"
    /\ pc' = "data_source"
    /\ UNCHANGED <<error, declared, handles, gen_vars, schema_readable,
                   resolvers_dir, graphql_types, random_chars, type_idx,
                   todo, outputs>>

DeclareRolePolicy ==
    /\ pc = "role_policy"
    /\ \E ok \in BOOLEAN :
          IF ok
          THEN /\ declared' = Append(declared, RolePolicy(type_name, handles))
               /\ handles' = [handles EXCEPT !.role_policy = Len(declared) + 1]
               /\ pc' = "data_source"
               /\ UNCHANGED error
          ELSE Raise(ResourceError) /\ UNCHANGED <<declared, handles>>
    /\ UNCHANGED <<gen_vars, schema_readable, resolvers_dir, graphql_types,
                   random_chars, type_idx, todo, outputs>>

DeclareDataSource ==
    /\ pc = "data_source"
    /\ \E ok \in BOOLEAN :
          IF ok
          THEN /\ declared' = Append(declared, DataSource(type_name, handles))
               /\ handles' = [handles EXCEPT !.data_source = Len(declared) + 1]
               /\ pc' = "iterdir"
               /\ UNCHANGED error
          ELSE Raise(ResourceError) /\ UNCHANGED <<declared, handles>>
    /\ UNCHANGED <<gen_vars, schema_readable, resolvers_dir, graphql_types,
                   random_chars, type_idx, todo, outputs>>

\* resolvers_dir.iterdir(): the listing, in no particular order
IterDir ==
    /\ pc = "iterdir"
    /\ IF resolvers_dir.exists
       THEN /\ todo' = resolvers_dir.entries
            /\ pc' = "resolvers"
            /\ UNCHANGED error
       ELSE Raise(FileNotFoundError) /\ UNCHANGED todo
    /\ UNCHANGED <<gen_vars, schema_readable, resolvers_dir, graphql_types,
                   random_chars, type_idx, handles, declared, outputs>>

resolvers_path == joinpath(amplify_api_build_dir, "resolvers")

\* a mutant of res_file_name: the request file is read twice
res_file_name_req(m) == m.group1 \o "." \o m.group2 \o ".req.vtl"

\* the name of the response file that belongs to a match
res_file_name(m) == m.group1 \o "." \o m.group2 \o ".res.vtl"

\* one iteration of the loop over the directory entries
ResolverStep ==
    /\ pc = "resolvers"
    /\ \E req_file \in todo :
          /\ todo' = todo \ {req_file}
          /\ LET regex == regex_match(type_name, req_file)
             IN  IF regex = {}
                 THEN UNCHANGED <<pc, error, declared>>
                 ELSE LET m == CHOOSE m \in regex : TRUE
                      IN  IF res_file_name(m) \notin resolvers_dir.entries
                          THEN Raise(FileNotFoundError) /\ UNCHANGED declared
                          ELSE \E ok \in BOOLEAN :
                                  IF ok
                                  THEN /\ declared' = Append(declared,
                                            Resolver(m,
                                                read_text(joinpath(
                                                    resolvers_path, req_file)),
                                                read_text(joinpath(
                                                    resolvers_path,
                                                    res_file_name(m))),
                                                handles))
                                       /\ UNCHANGED <<pc, error>>
                                  ELSE Raise(ResourceError)
                                       /\ UNCHANGED declared
    /\ UNCHANGED <<gen_vars, schema_readable, resolvers_dir, graphql_types,
                   random_chars, type_idx, handles, outputs>>

\* the listing is exhausted: generate_resolvers and
\* generate_dynamo_data_source return, the loop of __init__ goes on
ResolversReturn ==
    /\ pc = "resolvers"
    /\ todo = {}
    /\ type_idx' = type_idx + 1
    /\ pc' = AfterType(type_idx + 1)
    /\ UNCHANGED <<gen_vars, schema_readable, resolvers_dir, graphql_types,
                   random_chars, handles, todo, declared, outputs, error>>

DeclareExportsFile ==
    /\ pc = "exports"
    /\ \E ok \in BOOLEAN :
          IF ok
          THEN /\ declared' = Append(declared, AmplifyExportsFile(handles))
               /\ pc' = "outputs"
               /\ UNCHANGED error
          ELSE Raise(ResourceError) /\ UNCHANGED declared
    /\ UNCHANGED <<gen_vars, schema_readable, resolvers_dir, graphql_types,
                   random_chars, type_idx, handles, todo, outputs>>

\* self.set_outputs({"graphql_api_uri": graphql_api.uris["GRAPHQL"]})
set_outputs ==
    /\ pc = "outputs"
    /\ outputs' = { <<"graphql_api_uri",
                      Output(handles.graphql_api, "uris.GRAPHQL")>> }
    /\ pc' = "done"
    /\ UNCHANGED <<gen_vars, schema_readable, resolvers_dir, graphql_types,
                   random_chars, type_idx, handles, todo, declared, error>>

Next ==
    \/ Begin
    \/ DeclareGraphQLApi
    \/ DeclareTable
    \/ DeclareRole
    \/ DeclareRolePolicy
    \/ DeclareDataSource
    \/ IterDir
    \/ ResolverStep
    \/ ResolversReturn
    \/ DeclareExportsFile
    \/ set_outputs

Spec == Init /\ [][Next]_vars

-----------------------------------------------------------------------------
(* Vocabulary of the properties.                                           *)

Indices(kind) == { i \in 1 .. Len(declared) : declared[i].kind = kind }

Count(kind) == Cardinality(Indices(kind))

Occurrences(t) ==
    Cardinality({ i \in 1 .. Len(graphql_types) : graphql_types[i] = t })

LogicalName(t, suffix) == "notespulumi_" \o t \o suffix

LowerHexDigits ==
    { "0", "1", "2", "3", "4", "5", "6", "7", "8", "9",
      "a", "b", "c", "d", "e", "f" }

AllLetters(s) == Len(s) >= 1 /\ \A i \in 1 .. Len(s) : CharAt(s, i) \in Letters

\* the text of the entry e of the resolvers directory
EntryText(e) ==
    "text of amplify/backend/api/notespulumi/build/resolvers/" \o e

\* the resolvers declared since the data source of the current type
CurrentResolvers ==
    { r \in Indices("Resolver") : r > handles.data_source }

-----------------------------------------------------------------------------
(* C1: for every n >= 1 and every outcome of the byte source, generate(n)  *)
(* returns exactly n characters, all lowercase hexadecimal digits; it      *)
(* draws ceil(n/2) bytes and returns the first n characters of their       *)
(* 2*ceil(n/2)-character hex encoding.                                     *)
C1_GenerateLengthAndDigits ==
    gen_out # None =>
        /\ Len(gen_out) = gen_chars
        /\ \A i \in 1 .. Len(gen_out) : CharAt(gen_out, i) \in LowerHexDigits
        /\ 2 * Len(gen_bytes) \in {gen_chars, gen_chars + 1}
        /\ Len(b2a_hex(gen_bytes)) = 2 * Len(gen_bytes)
        /\ gen_out = SubSeq(b2a_hex(gen_bytes), 1, gen_chars)

\* an odd n: two bytes drawn, four digits encoded, three returned
C1_Witness ==
    /\ gen_chars = 3
    /\ gen_bytes = <<222, 173>>
    /\ gen_out = "dea"

-----------------------------------------------------------------------------
(* C2: when generate_resolvers has gone through the whole directory for a  *)
(* type T, it has declared exactly one resolver per entry named            *)
(* <kind>.<field>.req.vtl (kind: letters; field: letters, then T, then an  *)
(* optional "s"), with that type and field, and none for any other entry.  *)

\* e is <kind>.<field>.req.vtl for the type name t
C2_HasForm(t, e, kind, field) ==
    /\ e = kind \o "." \o field \o ".req.vtl"
    /\ AllLetters(kind)
    /\ \E p \in 1 .. Len(field) :
          /\ AllLetters(SubSeq(field, 1, p))
          /\ SubSeq(field, p + 1, Len(field)) \in {t, t \o "s"}

\* the ways to split e at a dot into a kind and a field of that form
C2_Forms(t, e) ==
    { kf \in { <<SubSeq(e, 1, i - 1), SubSeq(e, i + 1, Len(e) - 8)>> :
                  i \in 1 .. Len(e) } :
        C2_HasForm(t, e, kf[1], kf[2]) }

\* C2: once the directory has been gone through for a type, the resolvers
\* declared for it are exactly one per entry named <kind>.<field>.req.vtl,
\* with that kind and field, and none for any other entry
C2_ResolversExactlyForNamedEntries ==
    (pc = "resolvers" /\ todo = {}) =>
        \A e \in resolvers_dir.entries :
            LET made == { r \in CurrentResolvers :
                            declared[r].args.request_template = EntryText(e) }
            IN  IF C2_Forms(type_name, e) = {}
                THEN made = {}
                ELSE /\ Cardinality(made) = 1
                     /\ \A r \in made :
                           <<declared[r].args.type, declared[r].args.field>>
                               \in C2_Forms(type_name, e)

-----------------------------------------------------------------------------
(* C3: a request file that matches the pattern for a type of graphql_types *)
(* while its .res.vtl file is absent makes the construction fail with a    *)
(* filesystem error when it is reached, the construction never completes,  *)
(* and no resolver is declared for that request file.                      *)

\* e matches the pattern for t and the response file named after it is absent
C3_Orphan(t, e) ==
    \E m \in regex_match(t, e) :
        (m.group1 \o "." \o m.group2 \o ".res.vtl") \notin resolvers_dir.entries

C3_OrphanEntries ==
    { e \in resolvers_dir.entries :
        \E i \in 1 .. Len(graphql_types) : C3_Orphan(graphql_types[i], e) }

C3_NoResolverAndNoCompletion ==
    /\ \A r \in Indices("Resolver") :
          \A e \in resolvers_dir.entries :
              declared[r].args.request_template = EntryText(e)
                  => e \notin C3_OrphanEntries
    /\ pc \in {"exports", "outputs", "done"} => C3_OrphanEntries = {}

C3_ReadFails ==
    \A e \in resolvers_dir.entries :
        (/\ pc = "resolvers"
         /\ e \in todo
         /\ e \notin todo'
         /\ C3_Orphan(type_name, e))
        => (/\ pc' = "failed"
            /\ error' = "FileNotFoundError"
            /\ declared' = declared)

\* C3: a matching request file without its response file is never given a
\* resolver, the construction never completes, and reading it fails with
\* FileNotFoundError
C3_MissingResponseFileFails ==
    [] C3_NoResolverAndNoCompletion /\ [][C3_ReadFails]_vars

\* the construction failed on reading the absent response file
C3_Witness ==
    /\ pc = "failed"
    /\ error = "FileNotFoundError"
    /\ schema_readable
    /\ resolvers_dir.exists
    /\ \E e \in resolvers_dir.entries \ todo : C3_Orphan(type_name, e)

-----------------------------------------------------------------------------
(* C4: when the schema file cannot be read the construction fails, and at  *)
(* that point nothing has been declared (no API, store, role, role policy, *)
(* data source, resolver or exports file) and no output is registered.     *)
C4_SchemaUnreadableAborts ==
    (~schema_readable /\ pc # "start") =>
        /\ pc = "failed"
        /\ error = "FileNotFoundError"
        /\ declared = <<>>
        /\ outputs = {}

C4_Witness ==
    /\ ~schema_readable
    /\ pc = "failed"
    /\ graphql_types # <<>>
    /\ resolvers_dir.entries # {}

-----------------------------------------------------------------------------
(* C5: a completed construction has declared exactly one GraphQL API and,  *)
(* for each element of graphql_types, exactly one store, one role, one     *)
(* role policy and one data source of that type, and for each element one  *)
(* resolver per directory entry that matches its type; nothing else.       *)

C5_TypeKinds ==
    { <<"Table", "_table">>, <<"Role", "_role">>,
      <<"RolePolicy", "_role_policy">>, <<"DataSource", "_data_source">> }

C5_Matching(t) ==
    { e \in resolvers_dir.entries : regex_match(t, e) # {} }

\* C5: a completed construction declared one API and, per element of
\* graphql_types, one store, role, role policy and data source, plus the
\* resolvers of the matching entries, and nothing else
C5_ExactlyOnePerType ==
    pc = "done" =>
        /\ Count("GraphQLApi") = 1
        /\ Count("AmplifyExportsFile") = 1
        /\ \A ks \in C5_TypeKinds :
              /\ Count(ks[1]) = Len(graphql_types)
              /\ \A t \in TypeNames :
                    Cardinality({ i \in Indices(ks[1]) :
                        declared[i].name = LogicalName(t, ks[2]) })
                    = Occurrences(t)
        /\ \A t \in TypeNames :
              \A e \in resolvers_dir.entries :
                  Cardinality({ r \in Indices("Resolver") :
                      /\ declared[r].args.data_source
                             = t \o "TableDataSource_" \o random_chars
                      /\ declared[r].args.request_template = EntryText(e) })
                  = IF e \in C5_Matching(t) THEN Occurrences(t) ELSE 0
        /\ \A r \in Indices("Resolver") :
              \E i \in 1 .. Len(graphql_types), e \in resolvers_dir.entries :
                  /\ declared[r].args.data_source
                         = graphql_types[i] \o "TableDataSource_" \o random_chars
                  /\ declared[r].args.request_template = EntryText(e)
        /\ \A i \in 1 .. Len(declared) :
              declared[i].kind \in
                  { "GraphQLApi", "Table", "Role", "RolePolicy", "DataSource",
                    "Resolver", "AmplifyExportsFile" }

\* the example of the specification: ["Note"] and one request/response pair
C5_Witness ==
    /\ pc = "done"
    /\ graphql_types = <<"Note">>
    /\ resolvers_dir.entries
           = {"Query.getNote.req.vtl", "Query.getNote.res.vtl"}
    /\ Count("Resolver") = 1

-----------------------------------------------------------------------------
(* C6: the inline access policy of each type names, as its resources,      *)
(* exactly the two ARNs of that type's own store (the table, and the table *)
(* with every sub-resource), built from the store's name, and never        *)
(* another type's store.  As claimed it grants seven actions; the code     *)
(* grants eight.                                                           *)

C6_Arn(table_name) ==
    "arn:aws:dynamodb:eu-west-1:123456789012:table/" \o table_name

\* the policy at position p is scoped to the store of its own type
C6_OwnStoreOnly(p) ==
    \E t \in TypeNames :
        /\ declared[p].name = LogicalName(t, "_role_policy")
        /\ declared[p].args.policy.Effect = "Allow"
        /\ \E s \in Indices("Table") :
              /\ s < p
              /\ declared[s].name = LogicalName(t, "_table")
              /\ declared[s].args.name
                     = "notespulumi_" \o random_chars \o "." \o t
              /\ declared[p].args.policy.Resource
                     = << C6_Arn(declared[s].args.name),
                          C6_Arn(declared[s].args.name) \o "/*" >>
        /\ \A s \in Indices("Table") :
              declared[s].name # LogicalName(t, "_table") =>
                  \A i \in 1 .. Len(declared[p].args.policy.Resource) :
                      declared[p].args.policy.Resource[i]
                          \notin { C6_Arn(declared[s].args.name),
                                   C6_Arn(declared[s].args.name) \o "/*" }

\* C6 as stated: every role policy grants seven actions on its own store only
C6_SevenActionsOwnStore ==
    \A p \in Indices("RolePolicy") :
        /\ Len(declared[p].args.policy.Action) = 7
        /\ C6_OwnStoreOnly(p)

\* C6 as amended: every role policy grants the eight actions of the code on
\* its own store only
C6_EightActionsOwnStore ==
    \A p \in Indices("RolePolicy") :
        /\ declared[p].args.policy.Action
               = << "dynamodb:BatchGetItem", "dynamodb:BatchWriteItem",
                    "dynamodb:PutItem", "dynamodb:DeleteItem",
                    "dynamodb:GetItem", "dynamodb:Scan", "dynamodb:Query",
                    "dynamodb:UpdateItem" >>
        /\ C6_OwnStoreOnly(p)

\* the policy of a second type is declared while another type's store exists
C6_Witness ==
    /\ graphql_types = <<"Note", "SubNote">>
    /\ Count("RolePolicy") = 2
    /\ Count("Table") = 2

-----------------------------------------------------------------------------
(* C7: after a completed construction the graphql_api_uri output and the   *)
(* aws_appsync_graphqlEndpoint parameter of the exports file are both the  *)
(* GRAPHQL URI of the one GraphQL API this construction declared.          *)
C7_EndpointIsTheDeclaredApiUri ==
    pc = "done" =>
        \E a \in Indices("GraphQLApi") :
            /\ Indices("GraphQLApi") = {a}
            /\ outputs = { <<"graphql_api_uri",
                             [handle |-> a, attr |-> "uris.GRAPHQL"]>> }
            /\ Count("AmplifyExportsFile") = 1
            /\ \A x \in Indices("AmplifyExportsFile") :
                  declared[x].args.parameters.aws_appsync_graphqlEndpoint
                      = [handle |-> a, attr |-> "uris.GRAPHQL"]

C7_Witness ==
    /\ pc = "done"
    /\ outputs # {}
    /\ Len(graphql_types) = 2
    /\ Count("Resolver") >= 1

-----------------------------------------------------------------------------
(* C8: for one type the resources are declared in the order store, role,   *)
(* role policy, data source, then resolvers; the data source depends       *)
(* explicitly on the role and on nothing else; every resolver comes after  *)
(* the data source of its type and is bound to it.                         *)

\* the data source that precedes position r most closely
C8_DataSourceBefore(r) ==
    CHOOSE d \in Indices("DataSource") :
        d < r /\ \A d2 \in Indices("DataSource") : d2 < r => d2 <= d

\* C8: store, role, role policy, data source, resolvers, in that order; the
\* data source depends on the role alone; resolvers are bound to the data
\* source declared before them
C8_OrderAndDependencies ==
    /\ \A i \in 1 .. Len(declared) - 1 :
          /\ declared[i].kind = "Table" => declared[i + 1].kind = "Role"
          /\ declared[i].kind = "Role" => declared[i + 1].kind = "RolePolicy"
          /\ declared[i].kind = "RolePolicy"
                 => declared[i + 1].kind = "DataSource"
          /\ declared[i].kind = "DataSource"
                 => declared[i + 1].kind
                        \in {"Resolver", "Table", "AmplifyExportsFile"}
    /\ \A d \in Indices("DataSource") :
          /\ d > 3
          /\ \E t \in TypeNames :
                /\ declared[d].name = LogicalName(t, "_data_source")
                /\ declared[d - 1].name = LogicalName(t, "_role_policy")
                /\ declared[d - 2].name = LogicalName(t, "_role")
                /\ declared[d - 3].name = LogicalName(t, "_table")
          /\ declared[d - 1].kind = "RolePolicy"
          /\ declared[d - 2].kind = "Role"
          /\ declared[d - 3].kind = "Table"
          /\ declared[d].depends_on = <<d - 2>>
          /\ declared[d].args.service_role_arn
                 = [handle |-> d - 2, attr |-> "arn"]
    /\ \A r \in Indices("Resolver") :
          /\ \E d \in Indices("DataSource") : d < r
          /\ \A i \in C8_DataSourceBefore(r) + 1 .. r :
                declared[i].kind = "Resolver"
          /\ declared[r].args.data_source
                 = declared[C8_DataSourceBefore(r)].args.name
          /\ declared[r].depends_on = <<>>

\* resolvers declared for the second of two types
C8_Witness ==
    /\ Count("DataSource") = 2
    /\ \E r \in Indices("Resolver") :
          \E d \in Indices("DataSource") :
              d < r /\ \E d2 \in Indices("DataSource") : d2 < d

-----------------------------------------------------------------------------
(* C9: the exports file is declared and the output registered only after   *)
(* the data-source procedure has completed for every type; a failure ends  *)
(* the construction: no later type is processed, no exports file, and what *)
(* was declared stays declared.                                            *)

C9_ExportsOnlyAfterAllTypes ==
    /\ (Count("AmplifyExportsFile") > 0 \/ outputs # {}
            \/ pc \in {"exports", "outputs", "done"})
          => /\ type_idx = Len(graphql_types) + 1
             /\ Count("DataSource") = Len(graphql_types)
             /\ error = "None"
    /\ outputs # {} => Count("AmplifyExportsFile") = 1
    /\ (error # "None" \/ pc = "failed")
          => /\ pc = "failed"
             /\ error # "None"
             /\ Count("AmplifyExportsFile") = 0
             /\ outputs = {}
             /\ Count("Table") <= type_idx

C9_FailureIsFinal ==
    (pc = "failed" \/ pc' = "failed")
        => /\ pc' = "failed"
           /\ declared' = declared
           /\ type_idx' = type_idx
           /\ outputs' = outputs

\* C9: the exports file and the output exist only after every type was
\* processed, and a failed construction does nothing more
C9_FailureAbortsConstruction ==
    [] C9_ExportsOnlyAfterAllTypes /\ [][C9_FailureIsFinal]_vars

\* a failure while the second type is processed: the first type's
\* resources are declared, the exports file is not
C9_Witness ==
    /\ pc = "failed"
    /\ Len(graphql_types) = 2
    /\ type_idx = 2
    /\ Count("DataSource") >= 1
    /\ Count("AmplifyExportsFile") = 0

-----------------------------------------------------------------------------
(* C10: for distinct type names, all resources declared by one             *)
(* construction have pairwise distinct logical names, and each request     *)
(* file yields a resolver for at most one type of the list.                *)
C10_DistinctLogicalNames ==
    (\A i, j \in 1 .. Len(graphql_types) :
        graphql_types[i] = graphql_types[j] => i = j)
    => /\ \A i, j \in 1 .. Len(declared) :
             declared[i].name = declared[j].name => i = j
       /\ \A e \in resolvers_dir.entries :
             Cardinality({ r \in Indices("Resolver") :
                 declared[r].args.request_template = EntryText(e) }) <= 1

=============================================================================
